---- MODULE Spec2Model ----
(***************************************************************************)
(* DatabaseClient of mcp_server_motherduck/database.py: address            *)
(* resolution, the backend-specific connection initialisation and the      *)
(* query executor, against an engine (duckdb) whose connects and           *)
(* statements succeed or raise as the environment decides.                 *)
(*                                                                         *)
(* Python strings that the code inspects by prefix (addresses, tokens) are *)
(* sequences of characters.  SQL statements built by f-strings are tuples  *)
(* of their literal fragments and interpolated values, in order.  Error    *)
(* messages are sequences of words; `x in str(e)` is Contains.             *)
(***************************************************************************)
EXTENDS Integers, Sequences, FiniteSets, TLC

\* ------------------------------------------------------------------ bounds
MaxQueries == 2

MaxThreads == 2

Threads == 1..MaxThreads

\* ----------------------------------------------------------- Python values
\* None: no character sequence equals it (its one element is not a character).
None == <<"None">>

\* self.conn is None / a local conn not yet bound.
NoConn == 0

\* Variant of Truthy: an `is not None` test, which takes "" for a value.
TruthyNotNone(s) == s # None

\* Truthiness of an optional string: `if s:` is false for None and for "".
Truthy(s) == s # None /\ Len(s) > 0

\* str.startswith
StartsWith(s, p) == Len(s) >= Len(p) /\ SubSeq(s, 1, Len(p)) = p

\* `needle in hay` for sequences
Contains(hay, needle) ==
    \E i \in 0..(Len(hay) - Len(needle)) : SubSeq(hay, i + 1, i + Len(needle)) = needle

\* ------------------------------------------------------ literals of the code
PrefixR2 == <<"r", "2", ":", "/", "/">>

PrefixS3 == <<"s", "3", ":", "/", "/">>

PrefixMd == <<"m", "d", ":">>

MemoryPath == <<":", "m", "e", "m", "o", "r", "y", ":">>

TokenParam == <<"?", "m", "o", "t", "h", "e", "r", "d", "u", "c", "k", "_", "t", "o", "k", "e", "n", "=">>

SaasParam == <<"&", "s", "a", "a", "s", "_", "m", "o", "d", "e", "=", "t", "r", "u", "e">>

\* The message of the ValueError of line 186-188.
MsgTokenMissing == <<"Please", "set", "the", "motherduck_token">>

\* The message of the ValueError of line 44, for a backend kind.
MsgReadOnlyUnsupported(kind) ==
    <<"Read-only", "mode", "is", "not", "supported", "for", kind, "databases">>

\* The needle of line 125.
NeedleNoDatabase == <<"database", "does", "not", "exist">>

\* The prefix query() puts before the original message (line 231).
QueryErrorPrefix == <<"Error", "executing", "query:">>

\* Exceptions: the class and str(e).
ValueError(msg) == [type |-> "ValueError", msg |-> msg]

EngineError(msg) == [type |-> "duckdb.Error", msg |-> msg]

NoError == [type |-> "none", msg |-> <<>>]

\* ------------------------------------------------------------- the resolver
\* Variant of the resolver without the r2:// rule of lines 155-156.
resolve_without_r2(db_path, motherduck_token, saas_mode, envToken) ==
    IF StartsWith(db_path, PrefixS3)
    THEN [ok |-> TRUE, db_path |-> db_path, db_type |-> "s3"]
    ELSE IF StartsWith(db_path, PrefixMd)
    THEN IF Truthy(motherduck_token)
         THEN [ok |-> TRUE, db_type |-> "motherduck",
               db_path |-> db_path \o TokenParam \o motherduck_token
                           \o (IF saas_mode THEN SaasParam ELSE <<>>)]
         ELSE IF Truthy(envToken)
         THEN [ok |-> TRUE, db_type |-> "motherduck",
               db_path |-> db_path \o TokenParam \o envToken]
         ELSE [ok |-> FALSE, err |-> ValueError(MsgTokenMissing)]
    ELSE [ok |-> TRUE, db_path |-> db_path, db_type |-> "duckdb"]

\* _resolve_db_path_type: (db_path, db_type), or the ValueError it raises.
\* envToken is os.getenv("motherduck_token").
resolve_db_path_type(db_path, motherduck_token, saas_mode, envToken) ==
    IF StartsWith(db_path, PrefixR2)
    THEN [ok |-> TRUE, db_path |-> db_path, db_type |-> "r2"]
    ELSE IF StartsWith(db_path, PrefixS3)
    THEN [ok |-> TRUE, db_path |-> db_path, db_type |-> "s3"]
    ELSE IF StartsWith(db_path, PrefixMd)
    THEN IF Truthy(motherduck_token)
         THEN IF saas_mode
              THEN [ok |-> TRUE, db_type |-> "motherduck",
                    db_path |-> db_path \o TokenParam \o motherduck_token \o SaasParam]
              ELSE [ok |-> TRUE, db_type |-> "motherduck",
                    db_path |-> db_path \o TokenParam \o motherduck_token]
         ELSE IF Truthy(envToken)
         THEN [ok |-> TRUE, db_type |-> "motherduck",
               db_path |-> db_path \o TokenParam \o envToken]
         ELSE [ok |-> FALSE, err |-> ValueError(MsgTokenMissing)]
    ELSE IF db_path = MemoryPath
    THEN [ok |-> TRUE, db_path |-> db_path, db_type |-> "duckdb"]
    ELSE [ok |-> TRUE, db_path |-> db_path, db_type |-> "duckdb"]

\* ------------------------------------------------------------------- inputs
\* Addresses a caller may pass: each scheme, its near misses, and plain paths.
Addresses ==
    { <<"r", "2", ":", "/", "/", "b">>,
      <<"s", "3", ":", "/", "/", "b">>,
      <<"m", "d", ":">>,
      <<"m", "d", ":", "d">>,
      MemoryPath,
      <<"/", "d">>,
      <<"r", "2", ":", "/", "b">>,
      <<"s", "3", ":", "b">>,
      <<"m", "d">>,
      <<"R", "2", ":", "/", "/", "b">>,
      <<"m", "d", ":", "s", "3", ":", "/", "/">> }

\* Explicit token arguments, and values of the environment's token.
Tokens == { None, <<>>, <<"t">> }

EnvTokens == { None, <<>>, <<"e">> }

HomeDirs == { None, <<>>, <<"/", "h">> }

\* HOME of the process before any client is constructed.
InitialHome == <<"/", "r">>

\* Values an object-store credential variable may hold in the environment.
CredValues == { None, <<>>, <<"k">> }

\* Values of AWS_DEFAULT_REGION in the environment.
RegionValues == { None, <<>>, <<"e", "u">> }

DefaultRegion == <<"u", "s", "-", "e", "a", "s", "t", "-", "1">>

\* str(e) of the errors the engine raises during initialisation.
MsgNoDatabase == <<"IO", "Error:", "database", "does", "not", "exist">>

MsgNoTable == <<"Catalog", "Error:", "table", "does", "not", "exist">>

MsgDenied == <<"HTTP", "Error:", "403">>

EngineMsgs == { MsgNoDatabase, MsgNoTable, MsgDenied }

\* str(e) of the errors INSTALL raises: the extension is there already, or not.
MsgAlreadyInstalled == <<"Extension", "httpfs", "is", "already", "installed">>

InstallMsgs == { MsgAlreadyInstalled, MsgDenied }

\* str(e) of the errors a query statement raises.
QueryMsgs == { <<"Parser", "Error:", "syntax">> }

\* Statements the host passes to query().
Queries == { <<"SELECT 1 AS x">>, <<"SELECT * FROM t">> }

\* -------------------------------------------------------------------- state
VARIABLES
    pc,       \* where the constructor is: new, initialize, ..., ready, failed
    args,     \* the constructor's arguments, until _initialize_connection runs
    frame,    \* the locals of _initialize_connection
    self,     \* the client's fields
    HOME,     \* os.environ["HOME"]
    conns,    \* the engine's connections, by handle: path, mode, open, opener
    log,      \* the engine calls made so far (connects and statements), in order
    raised,   \* the exception that left the constructor
    call,     \* per thread: the query() call it is in
    ncalls,   \* query() calls begun
    returns   \* query() calls ended, in order: what each returned or raised

vars == <<pc, args, frame, self, HOME, conns, log, raised, call, ncalls, returns>>

\* The arguments are last read at line 33: past it they are not kept.
NoArgs == [db_path |-> None, motherduck_token |-> None, home_dir |-> None,
           saas_mode |-> FALSE, envToken |-> None]

\* conn, and the credentials read from the environment (lines 82-84, 98-100).
NoFrame == [conn |-> NoConn, creds |-> <<>>]

IdleCall == [pc |-> "idle", id |-> 0, sql |-> <<>>, conn |-> NoConn]

\* Who makes an engine call: the constructor, or the query() call of that number.
Constructor == 0

\* ------------------------------------------------------------------- engine
\* duckdb.connect(path, read_only=ro) succeeding: a new open handle.
Connected(cs, path, ro, by) ==
    Append(cs, [path |-> path, read_only |-> ro, open |-> TRUE, by |-> by, closedBy |-> -1])

\* Variant of Closed: a close() that leaves the connection open.
ClosedLeak(cs, h, by) == cs

\* conn.close()
Closed(cs, h, by) == [cs EXCEPT ![h].open = FALSE, ![h].closedBy = by]

\* The record of a connect attempt and of a statement.
\* msg is str(e) of the error the engine raised, <<>> when it raised none.
ConnectCall(h, path, ro, by, msg) ==
    [op |-> "connect", conn |-> h, stmt |-> <<path>>, read_only |-> ro, by |-> by,
     ok |-> (msg = <<>>), msg |-> msg]

ExecuteCall(h, stmt, by, msg) ==
    [op |-> "execute", conn |-> h, stmt |-> stmt, read_only |-> FALSE, by |-> by,
     ok |-> (msg = <<>>), msg |-> msg]

\* The statements of _initialize_connection.
StmtSelect1 == <<"SELECT 1">>

StmtInstall == <<"INSTALL httpfs;">>

StmtLoad == <<"LOAD httpfs;">>

StmtS3Secret(key, secret, region) ==
    <<"CREATE SECRET IF NOT EXISTS s3_secret ( TYPE S3, KEY_ID '", key,
      "', SECRET '", secret, "', REGION '", region, "' );">>

StmtR2Secret(key, secret, account) ==
    <<"CREATE SECRET IF NOT EXISTS r2_secret ( TYPE r2, KEY_ID '", key,
      "', SECRET '", secret, "', ACCOUNT_ID '", account, "' );">>

\* Variant of db_alias with the one alias s3db for both backends.
db_alias_s3db(db_type) == "s3db"

\* Line 114: the alias under which the database is attached.
db_alias(db_type) == IF db_type = "s3" THEN "s3db" ELSE "r2db"

\* The ATTACH of the first attempt (line 118) and of the retry (line 129).
StmtAttach(path, alias) == <<"ATTACH '", path, "' AS ", alias, ";">>

StmtAttachRetry(path, alias) == <<"ATTACH '", path, "' AS ", alias, ";">>

StmtUse(alias) == <<"USE ", alias, ";">>

\* str.upper() of a backend kind.
Upper(db_type) == IF db_type = "s3" THEN "S3" ELSE IF db_type = "r2" THEN "R2" ELSE db_type

\* Variant of RejectsReadOnly that forgets the r2 kind.
RejectsReadOnlyS3Only(db_type, read_only) == db_type = "s3" /\ read_only

\* Line 43: the combinations _initialize_connection refuses.
RejectsReadOnly(db_type, read_only) == db_type \in {"s3", "r2"} /\ read_only

\* Variant of Retries that does not look at the message.
RetriesAlways(msg, read_only) == ~read_only

\* Line 125: whether a failed first attempt is retried.
Retries(msg, read_only) == Contains(msg, NeedleNoDatabase) /\ ~read_only

\* --------------------------------------------------------------------- Init
Init ==
    /\ pc = "new"
    /\ args = NoArgs
    /\ frame = NoFrame
    /\ self = [read_only |-> FALSE, json_output |-> FALSE, db_path |-> None,
               db_type |-> "unset", conn |-> NoConn]
    /\ HOME = InitialHome
    /\ conns = <<>>
    /\ log = <<>>
    /\ raised = NoError
    /\ call = [t \in Threads |-> IdleCall]
    /\ ncalls = 0
    /\ returns = <<>>

\* An exception leaves the constructor: no client is produced.
Raise(e) ==
    /\ pc' = "failed"
    /\ raised' = e

\* ------------------------------------------------------------- __init__
\* Variant of New that sets HOME before it resolves the address.
NewHomeFirst(db_path, motherduck_token, home_dir, saas_mode, read_only, json_output, envToken) ==
    LET r == resolve_db_path_type(db_path, motherduck_token, saas_mode, envToken) IN
    /\ pc = "new"
    /\ args' = [db_path |-> db_path, motherduck_token |-> motherduck_token,
                home_dir |-> home_dir, saas_mode |-> saas_mode, envToken |-> envToken]
    /\ HOME' = IF Truthy(home_dir) THEN home_dir ELSE HOME
    /\ IF r.ok
       THEN /\ self' = [self EXCEPT !.read_only = read_only, !.json_output = json_output,
                                    !.db_path = r.db_path, !.db_type = r.db_type]
            /\ pc' = "initialize"
            /\ UNCHANGED raised
       ELSE /\ self' = [self EXCEPT !.read_only = read_only, !.json_output = json_output]
            /\ Raise(r.err)
    /\ UNCHANGED <<frame, conns, log, call, ncalls, returns>>

\* Lines 24-35, up to the call of _initialize_connection.
New(db_path, motherduck_token, home_dir, saas_mode, read_only, json_output, envToken) ==
    LET r == resolve_db_path_type(db_path, motherduck_token, saas_mode, envToken) IN
    /\ pc = "new"
    /\ args' = [db_path |-> db_path, motherduck_token |-> motherduck_token,
                home_dir |-> home_dir, saas_mode |-> saas_mode, envToken |-> envToken]
    /\ IF r.ok
       THEN /\ self' = [self EXCEPT !.read_only = read_only, !.json_output = json_output,
                                    !.db_path = r.db_path, !.db_type = r.db_type]
            /\ HOME' = IF Truthy(home_dir) THEN home_dir ELSE HOME
            /\ pc' = "initialize"
            /\ UNCHANGED raised
       ELSE /\ self' = [self EXCEPT !.read_only = read_only, !.json_output = json_output]
            /\ Raise(r.err)
            /\ UNCHANGED HOME
    /\ UNCHANGED <<frame, conns, log, call, ncalls, returns>>

\* Lines 43-44.
InitRejectReadOnly ==
    /\ pc = "initialize"
    /\ RejectsReadOnly(self.db_type, self.read_only)
    /\ Raise(ValueError(MsgReadOnlyUnsupported(Upper(self.db_type))))
    /\ args' = NoArgs
    /\ UNCHANGED <<frame, self, HOME, conns, log, call, ncalls, returns>>

\* Variant of Branch that probes for every read-only client, whatever its kind.
BranchProbesAnyReadOnly ==
    IF RejectsReadOnly(self.db_type, self.read_only) THEN "reject"
    ELSE IF self.read_only THEN "probe"
    ELSE IF self.db_type \in {"s3", "r2"} THEN "object_store"
    ELSE "direct"

\* The branch _initialize_connection takes once line 43 has let it pass.
Branch ==
    IF RejectsReadOnly(self.db_type, self.read_only) THEN "reject"
    ELSE IF self.db_type = "duckdb" /\ self.read_only THEN "probe"
    ELSE IF self.db_type \in {"s3", "r2"} THEN "object_store"
    ELSE "direct"

\* A connect made by the constructor: the handle is bound to the local conn and
\* the constructor goes on at `next`, or the engine's error leaves it.
ConstructorConnect(path, ro, next) ==
    \/ /\ conns' = Connected(conns, path, ro, Constructor)
       /\ log' = Append(log, ConnectCall(Len(conns) + 1, path, ro, Constructor, <<>>))
       /\ frame' = [frame EXCEPT !.conn = Len(conns) + 1]
       /\ pc' = next
       /\ UNCHANGED raised
    \/ \E m \in EngineMsgs :
          /\ log' = Append(log, ConnectCall(NoConn, path, ro, Constructor, m))
          /\ Raise(EngineError(m))
          /\ UNCHANGED <<conns, frame>>

\* Lines 48-55 and 59-61: the probe connection.
ProbeConnect ==
    /\ pc = "initialize"
    /\ Branch = "probe"
    /\ ConstructorConnect(self.db_path, self.read_only, "probe_execute")
    /\ args' = NoArgs
    /\ UNCHANGED <<self, HOME, call, ncalls, returns>>

\* Lines 56 and 59-61: the validation statement.
ProbeExecute ==
    /\ pc = "probe_execute"
    /\ \/ /\ log' = Append(log, ExecuteCall(frame.conn, StmtSelect1, Constructor, <<>>))
          /\ pc' = "probe_close"
          /\ UNCHANGED raised
       \/ \E m \in EngineMsgs :
             /\ log' = Append(log, ExecuteCall(frame.conn, StmtSelect1, Constructor, m))
             /\ Raise(EngineError(m))
    /\ UNCHANGED <<args, frame, self, HOME, conns, call, ncalls, returns>>

\* Lines 57-58 and 35: close the probe, return None, self.conn = None.
ProbeClose ==
    /\ pc = "probe_close"
    /\ conns' = Closed(conns, frame.conn, Constructor)
    /\ self' = [self EXCEPT !.conn = NoConn]
    /\ frame' = NoFrame
    /\ pc' = "ready"
    /\ UNCHANGED <<args, HOME, log, raised, call, ncalls, returns>>

\* Lines 140-148 and 35: the direct connection, held as self.conn.
DirectConnect ==
    /\ pc = "initialize"
    /\ Branch = "direct"
    /\ \/ /\ conns' = Connected(conns, self.db_path, self.read_only, Constructor)
          /\ log' = Append(log, ConnectCall(Len(conns) + 1, self.db_path, self.read_only,
                                            Constructor, <<>>))
          /\ self' = [self EXCEPT !.conn = Len(conns) + 1]
          /\ frame' = NoFrame
          /\ pc' = "ready"
          /\ UNCHANGED raised
       \/ \E m \in EngineMsgs :
             /\ log' = Append(log, ConnectCall(NoConn, self.db_path, self.read_only,
                                               Constructor, m))
             /\ Raise(EngineError(m))
             /\ UNCHANGED <<conns, self, frame>>
    /\ args' = NoArgs
    /\ UNCHANGED <<HOME, call, ncalls, returns>>

\* ------------------------------------------- object-store initialisation
\* Lines 76-77: every failure of INSTALL is passed over.
InstallPass == pc' = "load" /\ UNCHANGED raised

\* Lines 122-136: the handler of the first attempt (ATTACH and USE): retry, or
\* raise the error again.
AttachFailed(e) ==
    IF Retries(e.msg, self.read_only)
    THEN pc' = "retry_attach" /\ UNCHANGED raised
    ELSE Raise(e)

\* What becomes of an error e of a statement: under the try of line 74, under
\* the try of line 115, or anywhere else (it leaves the constructor).
OnError(handler, e) ==
    IF handler = "install" THEN InstallPass
    ELSE IF handler = "attach" THEN AttachFailed(e)
    ELSE Raise(e)

\* A statement the constructor runs on its local conn: it goes on at `next`, or
\* the engine's error (one of msgs) is handled by `handler`.
ConstructorExecuteWith(stmt, next, handler, msgs) ==
    \/ /\ log' = Append(log, ExecuteCall(frame.conn, stmt, Constructor, <<>>))
       /\ pc' = next
       /\ UNCHANGED raised
    \/ \E m \in msgs :
          /\ log' = Append(log, ExecuteCall(frame.conn, stmt, Constructor, m))
          /\ OnError(handler, EngineError(m))

ConstructorExecute(stmt, next, handler) ==
    ConstructorExecuteWith(stmt, next, handler, EngineMsgs)

\* Line 66: the in-memory engine instance.
ObjectStoreConnect ==
    /\ pc = "initialize"
    /\ Branch = "object_store"
    /\ ConstructorConnect(MemoryPath, FALSE, "install")
    /\ args' = NoArgs
    /\ UNCHANGED <<self, HOME, call, ncalls, returns>>

\* Lines 74-77: INSTALL httpfs.
Install ==
    /\ pc = "install"
    /\ ConstructorExecuteWith(StmtInstall, "load", "install", InstallMsgs)
    /\ UNCHANGED <<args, frame, self, HOME, conns, call, ncalls, returns>>

\* Line 78.
Load ==
    /\ pc = "load"
    /\ ConstructorExecute(StmtLoad, "secret", "raise")
    /\ UNCHANGED <<args, frame, self, HOME, conns, call, ncalls, returns>>

\* Lines 86 and 102: whether a secret is registered for the values read.
S3SecretWanted(key, secret) == Truthy(key) /\ Truthy(secret)

\* Variant of R2SecretWanted that does not look at the account id.
R2SecretWantedWithoutAccount(key, secret, account) == Truthy(key) /\ Truthy(secret)

\* Line 102.
R2SecretWanted(key, secret, account) == Truthy(key) /\ Truthy(secret) /\ Truthy(account)

\* Lines 80-95: the S3 credentials read from the environment, and the secret.
SecretS3 ==
    /\ pc = "secret"
    /\ self.db_type = "s3"
    /\ \E key \in CredValues, secret \in CredValues, region \in RegionValues :
          LET aws_region == IF region = None THEN DefaultRegion ELSE region IN
          /\ frame' = [frame EXCEPT !.creds = <<key, secret, region>>]
          /\ IF S3SecretWanted(key, secret)
             THEN ConstructorExecute(StmtS3Secret(key, secret, aws_region), "attach", "raise")
             ELSE pc' = "attach" /\ UNCHANGED <<log, raised>>
    /\ UNCHANGED <<args, self, HOME, conns, call, ncalls, returns>>

\* Lines 96-111: the R2 credentials read from the environment, and the secret.
SecretR2 ==
    /\ pc = "secret"
    /\ self.db_type = "r2"
    /\ \E key \in CredValues, secret \in CredValues, account \in CredValues :
          /\ frame' = [frame EXCEPT !.creds = <<key, secret, account>>]
          /\ IF R2SecretWanted(key, secret, account)
             THEN ConstructorExecute(StmtR2Secret(key, secret, account), "attach", "raise")
             ELSE pc' = "attach" /\ UNCHANGED <<log, raised>>
    /\ UNCHANGED <<args, self, HOME, conns, call, ncalls, returns>>

\* Line 118.
Attach ==
    /\ pc = "attach"
    /\ ConstructorExecute(StmtAttach(self.db_path, db_alias(self.db_type)), "use", "attach")
    /\ UNCHANGED <<args, frame, self, HOME, conns, call, ncalls, returns>>

\* Line 120.
Use ==
    /\ pc = "use"
    /\ ConstructorExecute(StmtUse(db_alias(self.db_type)), "return", "attach")
    /\ UNCHANGED <<args, frame, self, HOME, conns, call, ncalls, returns>>

\* Lines 129 and 132-134.
RetryAttach ==
    /\ pc = "retry_attach"
    /\ ConstructorExecute(StmtAttachRetry(self.db_path, db_alias(self.db_type)), "retry_use", "raise")
    /\ UNCHANGED <<args, frame, self, HOME, conns, call, ncalls, returns>>

\* Lines 130 and 132-134.
RetryUse ==
    /\ pc = "retry_use"
    /\ ConstructorExecute(StmtUse(db_alias(self.db_type)), "return", "raise")
    /\ UNCHANGED <<args, frame, self, HOME, conns, call, ncalls, returns>>

\* Variant of ObjectStoreReturn that records the address the held connection
\* was opened on as the client's address.
ObjectStoreReturnRebinding ==
    /\ pc = "return"
    /\ self' = [self EXCEPT !.conn = frame.conn, !.db_path = conns[frame.conn].path]
    /\ frame' = NoFrame
    /\ pc' = "ready"
    /\ UNCHANGED <<args, HOME, conns, log, raised, call, ncalls, returns>>

\* Lines 138 and 35: return conn, self.conn = conn.
ObjectStoreReturn ==
    /\ pc = "return"
    /\ self' = [self EXCEPT !.conn = frame.conn]
    /\ frame' = NoFrame
    /\ pc' = "ready"
    /\ UNCHANGED <<args, HOME, conns, log, raised, call, ncalls, returns>>

\* ------------------------------------------------------------------ queries
\* Variant of UsesEphemeral: a connection per call whatever self.conn is.
UsesEphemeralAlways(held) == TRUE

\* Lines 196 and 221: `self.conn is None`, the test for the ephemeral path.
UsesEphemeral(held) == held = NoConn

\* query() returns, or raises the ValueError of line 231: the call is over.
Return(t, ok, err) ==
    /\ returns' = Append(returns, [id |-> call[t].id, sql |-> call[t].sql, ok |-> ok, err |-> err])
    /\ call' = [call EXCEPT ![t] = IdleCall]

QueryError(t, m) == Return(t, FALSE, ValueError(QueryErrorPrefix \o m))

\* query(sql) is called on the constructed client (line 226-228).
Query(t, sql) ==
    /\ pc = "ready"
    /\ call[t].pc = "idle"
    /\ ncalls < MaxQueries
    /\ ncalls' = ncalls + 1
    /\ call' = [call EXCEPT ![t] = [pc |-> IF UsesEphemeral(self.conn) THEN "connect" ELSE "execute",
                                    id |-> ncalls + 1, sql |-> sql, conn |-> NoConn]]
    /\ UNCHANGED <<args, pc, frame, self, HOME, conns, log, raised, returns>>

\* Lines 198-202: the ephemeral connection.
ExecuteConnect(t) ==
    /\ call[t].pc = "connect"
    /\ \/ /\ conns' = Connected(conns, self.db_path, self.read_only, call[t].id)
          /\ log' = Append(log, ConnectCall(Len(conns) + 1, self.db_path, self.read_only,
                                            call[t].id, <<>>))
          /\ call' = [call EXCEPT ![t].conn = Len(conns) + 1, ![t].pc = "execute"]
          /\ UNCHANGED returns
       \/ \E m \in QueryMsgs :
             /\ log' = Append(log, ConnectCall(NoConn, self.db_path, self.read_only,
                                               call[t].id, m))
             /\ QueryError(t, m)
             /\ UNCHANGED conns
    /\ UNCHANGED <<args, pc, frame, self, HOME, raised, ncalls>>

\* Variant of Target where the ephemeral connection is a field all calls share:
\* a call finds there the connection opened last.
TargetShared(t) == IF UsesEphemeral(self.conn) THEN Len(conns) ELSE self.conn

\* The handle the statement of call t runs on: the local conn or self.conn.
Target(t) == IF UsesEphemeral(self.conn) THEN call[t].conn ELSE self.conn

\* Variant of ExecuteStatement that closes the connection of a failed statement.
ExecuteStatementClosing(t) ==
    /\ call[t].pc = "execute"
    /\ \/ /\ conns[Target(t)].open
          /\ log' = Append(log, ExecuteCall(Target(t), call[t].sql, call[t].id, <<>>))
          /\ call' = [call EXCEPT ![t].pc = "fetch"]
          /\ UNCHANGED <<returns, conns>>
       \/ \E m \in QueryMsgs :
             /\ log' = Append(log, ExecuteCall(Target(t), call[t].sql, call[t].id, m))
             /\ conns' = Closed(conns, Target(t), call[t].id)
             /\ QueryError(t, m)
    /\ UNCHANGED <<args, pc, frame, self, HOME, raised, ncalls>>

\* Lines 203 and 205: the statement, on the ephemeral or on the held handle.
ExecuteStatement(t) ==
    /\ call[t].pc = "execute"
    /\ \/ /\ conns[Target(t)].open
          /\ log' = Append(log, ExecuteCall(Target(t), call[t].sql, call[t].id, <<>>))
          /\ call' = [call EXCEPT ![t].pc = "fetch"]
          /\ UNCHANGED returns
       \/ \E m \in QueryMsgs :
             /\ log' = Append(log, ExecuteCall(Target(t), call[t].sql, call[t].id, m))
             /\ QueryError(t, m)
    /\ UNCHANGED <<args, pc, frame, self, HOME, conns, raised, ncalls>>

\* Lines 208-219: fetch the rows and the description, format the output.
ExecuteFetch(t) ==
    /\ call[t].pc = "fetch"
    /\ \/ /\ conns[Target(t)].open
          /\ call' = [call EXCEPT ![t].pc = "close"]
          /\ UNCHANGED returns
       \/ \E m \in QueryMsgs : QueryError(t, m)
    /\ UNCHANGED <<args, pc, frame, self, HOME, conns, log, raised, ncalls>>

\* Lines 221-224 and 228: close the ephemeral connection, return the output.
ExecuteClose(t) ==
    /\ call[t].pc = "close"
    /\ conns' = IF UsesEphemeral(self.conn) THEN Closed(conns, call[t].conn, call[t].id)
                ELSE conns
    /\ Return(t, TRUE, NoError)
    /\ UNCHANGED <<args, pc, frame, self, HOME, log, raised, ncalls>>

\* The host drives a client from one sequence of operations at a time: a call
\* begins when no other is running (on the first thread, the threads being alike).
NoCallRunning == \A t \in Threads : call[t].pc = "idle"

\* --------------------------------------------------------------------- Next
Next ==
    \/ \E a \in Addresses, tok \in Tokens, home \in HomeDirs, saas \in BOOLEAN,
          ro \in BOOLEAN, json \in BOOLEAN, env \in EnvTokens :
          New(a, tok, home, saas, ro, json, env)
    \/ InitRejectReadOnly
    \/ ProbeConnect
    \/ ProbeExecute
    \/ ProbeClose
    \/ DirectConnect
    \/ ObjectStoreConnect
    \/ Install
    \/ Load
    \/ SecretS3
    \/ SecretR2
    \/ Attach
    \/ Use
    \/ RetryAttach
    \/ RetryUse
    \/ ObjectStoreReturn
    \/ \E sql \in Queries : NoCallRunning /\ Query(1, sql)
    \/ \E t \in Threads : ExecuteConnect(t)
    \/ \E t \in Threads : ExecuteStatement(t)
    \/ \E t \in Threads : ExecuteFetch(t)
    \/ \E t \in Threads : ExecuteClose(t)

Spec == Init /\ [][Next]_vars

\* ------------------------------------------------------------------- claims
Handles == 1..Len(conns)

OpenHandles == { h \in Handles : conns[h].open }

\* Positions of the log holding a connect attempt / a statement made by `by`.
ConnectsBy(by) == { i \in 1..Len(log) : log[i].op = "connect" /\ log[i].by = by }

StatementsBy(by) == { i \in 1..Len(log) : log[i].op = "execute" /\ log[i].by = by }

OpenedBy(by) == { h \in Handles : conns[h].by = by }

Ephemeral == pc = "ready" /\ self.conn = NoConn

Held == pc = "ready" /\ self.conn # NoConn

LocalReadOnly == self.db_type = "duckdb" /\ self.read_only

Returned(ok) == { i \in 1..Len(returns) : returns[i].ok = ok }

\* C1: in ephemeral mode every query() call closes the connection it opened
\* before it returns or raises: with no call running, no connection is open.
C1_EphemeralClosedOnEveryExit ==
    (Ephemeral /\ NoCallRunning) => OpenHandles = {}

\* C2: construction of a Local read-only client makes one probe connection (same
\* address, read-only), runs SELECT 1 on it, closes it and holds no handle; each
\* successful query() call then opens exactly one connection to the same address,
\* read-only, and closes exactly that one: n successes give n opens and n closes
\* after the probe.
C2_ProbeThenOneConnectionPerQuery ==
    (pc = "ready" /\ LocalReadOnly) =>
        /\ self.conn = NoConn
        /\ ConnectsBy(Constructor) = {1}
        /\ StatementsBy(Constructor) = {2}
        /\ log[1] = ConnectCall(1, self.db_path, TRUE, Constructor, <<>>)
        /\ log[2] = ExecuteCall(1, StmtSelect1, Constructor, <<>>)
        /\ conns[1] = [path |-> self.db_path, read_only |-> TRUE, open |-> FALSE,
                       by |-> Constructor, closedBy |-> Constructor]
        /\ \A i \in Returned(TRUE) :
              LET k == returns[i].id IN
              /\ Cardinality(ConnectsBy(k)) = 1
              /\ Cardinality(OpenedBy(k)) = 1
              /\ \A h \in Handles :
                    /\ conns[h].by = k =>
                          /\ conns[h].path = self.db_path
                          /\ conns[h].read_only
                          /\ ~conns[h].open
                          /\ conns[h].closedBy = k
                    /\ conns[h].closedBy = k => conns[h].by = k
        /\ (NoCallRunning /\ Returned(FALSE) = {}) =>
              /\ Len(conns) = 1 + Len(returns)
              /\ Cardinality(Handles \ OpenHandles) = 1 + Len(returns)

C2_TwoSuccessfulQueries ==
    /\ pc = "ready"
    /\ LocalReadOnly
    /\ NoCallRunning
    /\ Len(returns) = 2
    /\ Returned(FALSE) = {}

\* C3: an s3:// or r2:// address with read_only = true never yields a client:
\* construction ends with the ValueError of line 44, and no connection was
\* attempted and no statement issued at any point.
C3_ReadOnlyObjectStoreRejected ==
    (self.db_type \in {"s3", "r2"} /\ self.read_only) =>
        /\ pc \in {"initialize", "failed"}
        /\ pc = "failed" =>
              raised = ValueError(MsgReadOnlyUnsupported(Upper(self.db_type)))
        /\ conns = <<>>
        /\ log = <<>>

C3_R2ReadOnlyFailed ==
    /\ pc = "failed"
    /\ self.db_type = "r2"
    /\ self.read_only
    /\ raised.type = "ValueError"

\* C4: an md: address with no token argument and no environment token (absent
\* or empty, each) fails in resolution with the ValueError of line 186, and no
\* connection is ever attempted for that construction.
C4_WarehouseWithoutToken ==
    (StartsWith(args.db_path, PrefixMd) /\ args.motherduck_token \in {None, <<>>}
        /\ args.envToken \in {None, <<>>}) =>
        /\ pc = "failed"
        /\ raised = ValueError(MsgTokenMissing)
        /\ self.db_type = "unset"
        /\ self.conn = NoConn
        /\ conns = <<>>
        /\ log = <<>>

C4_EmptyTokensFailed ==
    /\ pc = "failed"
    /\ args.db_path = <<"m", "d", ":", "d">>
    /\ args.motherduck_token = <<>>
    /\ args.envToken = <<>>

\* Positions of the log holding an ATTACH of the constructor, and the first.
IsAttach(e) == e.op = "execute" /\ e.by = Constructor /\ e.stmt[1] = "ATTACH '"

Attaches == { i \in 1..Len(log) : IsAttach(log[i]) }

FirstAttach == CHOOSE i \in Attaches : \A j \in Attaches : i <= j

\* Whether an ATTACH statement asks for a read-only attachment.
RequestsReadOnly(stmt) == stmt[Len(stmt)] = " (READ_ONLY);"

\* C5: when the first ATTACH of a not-read-only object-store client fails with
\* "database does not exist", it is retried exactly once, by an attach-as-create
\* that is another operation than the plain ATTACH that failed; a retry that
\* succeeds leads to Ready(handle); there are never more than two ATTACHes.
C5_RetryIsAttachAsCreate ==
    /\ Cardinality(Attaches) <= 2
    /\ Attaches # {} =>
          LET first == log[FirstAttach] IN
          /\ (~first.ok /\ Contains(first.msg, NeedleNoDatabase) /\ ~self.read_only) =>
                \/ pc = "retry_attach" /\ Cardinality(Attaches) = 1
                \/ Cardinality(Attaches) = 2
          /\ \A j \in Attaches \ {FirstAttach} :
                /\ log[j].stmt # first.stmt
                /\ pc = "ready" => (log[j].ok /\ self.conn = log[j].conn)

\* C6: a first ATTACH that fails otherwise than with "database does not exist",
\* or under read_only = true, and a retry that fails, are fatal: no engine call
\* follows, the engine's error leaves the constructor unchanged, and no client
\* (no handle, no query) comes of it.
C6_FatalAttachFailure ==
    /\ Cardinality(Attaches) <= 2
    /\ \A i \in Attaches :
          (/\ ~log[i].ok
           /\ \/ i # FirstAttach
              \/ ~Contains(log[i].msg, NeedleNoDatabase)
              \/ self.read_only) =>
             /\ i = Len(log)
             /\ pc = "failed"
             /\ raised = EngineError(log[i].msg)
             /\ self.conn = NoConn
             /\ ncalls = 0
    /\ \A m \in EngineMsgs : ~Retries(m, TRUE)
    /\ pc = "failed" => (self.conn = NoConn /\ ncalls = 0)

C6_NearMissAttachFailed ==
    /\ pc = "failed"
    /\ Cardinality(Attaches) = 1
    /\ log[Len(log)] = ExecuteCall(1, StmtAttach(self.db_path, db_alias(self.db_type)),
                                   Constructor, MsgNoTable)
    /\ raised = EngineError(MsgNoTable)

\* C7: the ATTACH of the first attempt is a read-only attachment whatever
\* read_only is, so an object-store client made ready without the retry has its
\* catalog attached read-only.
C7_FirstAttachIsReadOnly ==
    Attaches # {} => RequestsReadOnly(log[FirstAttach].stmt)

\* C8: no step of a query() call, failing or not, changes the client: its fields
\* (address, kind, policy, handle) stay what they were and the held handle stays
\* the same open connection, so a later call can still succeed.
C8_QueryErrorKeepsClient ==
    [][pc = "ready" =>
          /\ pc' = "ready"
          /\ self' = self
          /\ self.conn # NoConn =>
                (conns[self.conn].open /\ conns'[self.conn] = conns[self.conn])]_vars

C8_SuccessAfterFailure ==
    /\ pc = "ready"
    /\ Len(returns) = 2
    /\ ~returns[1].ok
    /\ returns[1].err.type = "ValueError"
    /\ returns[2].ok

\* C9: a client holding a handle runs every query statement on that handle, the
\* one connection the constructor opened; no call opens a connection or closes
\* one, whether its statement succeeds or fails.
C9_HeldHandleReused ==
    Held =>
        /\ Len(conns) = 1
        /\ self.conn = 1
        /\ conns[1].by = Constructor
        /\ conns[1].open
        /\ conns[1].closedBy = -1
        /\ \A i \in 1..Len(log) :
              log[i].by # Constructor => (log[i].op = "execute" /\ log[i].conn = self.conn)
        /\ \A i \in 1..Len(returns) :
              \E j \in 1..Len(log) :
                 /\ StatementsBy(returns[i].id) = {j}
                 /\ log[j].stmt = returns[i].sql
                 /\ log[j].ok \/ ~returns[i].ok

C9_HeldOkAndFailed ==
    /\ Held
    /\ self.db_type = "motherduck"
    /\ Returned(TRUE) # {}
    /\ Returned(FALSE) # {}

\* The classification rules in their order; the kind of the first that matches.
Rules == << [prefix |-> PrefixR2, kind |-> "r2"],
            [prefix |-> PrefixS3, kind |-> "s3"],
            [prefix |-> PrefixMd, kind |-> "motherduck"] >>

FirstMatchKind(a) ==
    LET hits == { i \in 1..Len(Rules) : StartsWith(a, Rules[i].prefix) } IN
    IF hits = {} THEN "duckdb"
    ELSE Rules[CHOOSE i \in hits : \A j \in hits : i <= j].kind

\* C10: the kind resolved for an address is that of the first rule matching it
\* (r2://, s3://, md:, else Local); object-store and local addresses come back
\* verbatim, and for them no token, environment token or saas_mode changes the
\* result.
C10_FirstMatchWins ==
    args # NoArgs =>
        LET kind == FirstMatchKind(args.db_path) IN
        /\ pc \in {"initialize", "failed"}
        /\ pc = "initialize" => self.db_type = kind
        /\ pc = "failed" => kind = "motherduck"
        /\ kind # "motherduck" =>
              /\ pc = "initialize"
              /\ self.db_path = args.db_path
              /\ \A tok \in Tokens, saas \in BOOLEAN, env \in EnvTokens :
                    resolve_db_path_type(args.db_path, tok, saas, env) =
                       [ok |-> TRUE, db_path |-> self.db_path, db_type |-> self.db_type]

C10_R2ResolvedDespiteToken ==
    /\ pc = "initialize"
    /\ args.db_path = <<"r", "2", ":", "/", "/", "b">>
    /\ args.motherduck_token = <<"t">>
    /\ args.saas_mode
    /\ self.db_type = "r2"

\* C11: the address resolved for md: is the address given, then the token (the
\* argument when not empty, else the environment's) as a query parameter, then
\* the saas_mode parameter whenever saas_mode is set, whichever the token's
\* source, and nothing when it is not set.
C11_TokenAndSaasFlagEmbedded ==
    (pc = "initialize" /\ StartsWith(args.db_path, PrefixMd)) =>
        LET token == IF args.motherduck_token \notin {None, <<>>}
                     THEN args.motherduck_token ELSE args.envToken IN
        /\ self.db_type = "motherduck"
        /\ token \notin {None, <<>>}
        /\ self.db_path = args.db_path \o TokenParam \o token
                          \o (IF args.saas_mode THEN SaasParam ELSE <<>>)

\* Positions of the log holding the INSTALL of the constructor.
Installs == { i \in 1..Len(log) : log[i].op = "execute" /\ log[i].stmt = StmtInstall }

\* C12: a failure of INSTALL is passed over only when it says the extension is
\* already installed, and then LOAD follows; any other failure of INSTALL leaves
\* the constructor, and neither LOAD, nor a secret, nor ATTACH is issued.
C12_OnlyAlreadyInstalledAbsorbed ==
    \A i \in Installs :
        /\ (~log[i].ok /\ log[i].msg = MsgAlreadyInstalled) =>
              (pc = "load" \/ (Len(log) > i /\ log[i + 1].stmt = StmtLoad))
        /\ (~log[i].ok /\ log[i].msg # MsgAlreadyInstalled) =>
              /\ Len(log) = i
              /\ pc = "failed"
              /\ raised = EngineError(log[i].msg)

\* The exception types a caller catches from a failed construction that made no
\* engine call (lines 44 and 186) and from one stopped by the engine.
ConfigurationKind == ValueError(MsgTokenMissing).type

ConnectionKind == EngineError(MsgDenied).type

\* C13: the kind of an error tells the phase that failed. A construction that
\* fails before any engine call raises the configuration kind, one that fails
\* on an engine call raises the connection kind, and a failed query() raises a
\* kind that is neither of the two.
C13_KindsTellPhases ==
    /\ ConfigurationKind # ConnectionKind
    /\ (pc = "failed" /\ log = <<>>) => raised.type = ConfigurationKind
    /\ (pc = "failed" /\ log # <<>>) => raised.type = ConnectionKind
    /\ \A i \in Returned(FALSE) :
          returns[i].err.type \notin {ConfigurationKind, ConnectionKind}

\* ------------------------------------------------- concurrent query() calls
\* Addresses of the Local backend.
LocalAddresses == { MemoryPath, <<"/", "d">> }

\* A Local client, read-only or not, whose query() is called from several
\* threads at once: a call begins whatever the other calls are doing, and the
\* steps of _execute interleave.
NextConcurrent ==
    \/ \E a \in LocalAddresses, ro \in BOOLEAN, json \in BOOLEAN :
          New(a, None, None, FALSE, ro, json, None)
    \/ ProbeConnect
    \/ ProbeExecute
    \/ ProbeClose
    \/ DirectConnect
    \/ \E t \in Threads, sql \in Queries : Query(t, sql)
    \/ \E t \in Threads : ExecuteConnect(t)
    \/ \E t \in Threads : ExecuteStatement(t)
    \/ \E t \in Threads : ExecuteFetch(t)
    \/ \E t \in Threads : ExecuteClose(t)

SpecConcurrent == Init /\ [][NextConcurrent]_vars

\* The threads whose call is past its connect and not yet at its return.
Running == { t \in Threads : call[t].pc \in {"execute", "fetch", "close"} }

\* C14: in ephemeral mode, whatever the interleaving of the calls, a statement
\* of a call runs on a connection that call opened, a connection is closed by
\* the call that opened it, and the connection of a call that has not yet
\* closed it is open and its own.
C14_CallsKeepToTheirOwnConnection ==
    Ephemeral =>
        /\ \A i \in 1..Len(log) :
              (log[i].op = "execute" /\ log[i].by # Constructor) =>
                  conns[log[i].conn].by = log[i].by
        /\ \A h \in Handles : ~conns[h].open => conns[h].closedBy = conns[h].by
        /\ \A t \in Running :
              /\ conns[call[t].conn].open
              /\ conns[call[t].conn].by = call[t].id

\* Two calls have succeeded, the second having connected and run its statement
\* between the connect and the statement of the first.
C14_TwoCallsInterleaved ==
    /\ Ephemeral
    /\ Cardinality(Returned(TRUE)) = 2
    /\ \E i, j, k, l \in 1..Len(log) :
          /\ i < j /\ j < k /\ k < l
          /\ log[i].op = "connect" /\ log[i].by = 1 /\ log[i].ok
          /\ log[j].op = "connect" /\ log[j].by = 2 /\ log[j].ok
          /\ log[k].op = "execute" /\ log[k].by = 2 /\ log[k].ok
          /\ log[l].op = "execute" /\ log[l].by = 1 /\ log[l].ok

\* C15: once __init__ has resolved the address (it is past line 30), db_type,
\* db_path, _read_only and _json_output keep their values in every step, of the
\* constructor and of query() calls, successful or failing.
C15_ResolvedFieldsFrozen ==
    [][pc # "new" =>
          /\ self'.db_type = self.db_type
          /\ self'.db_path = self.db_path
          /\ self'.read_only = self.read_only
          /\ self'.json_output = self.json_output]_vars

\* A held object-store client, of a resolved address that is not the address
\* its connection was opened on, after a successful and a failed query().
C15_QueriesOnObjectStoreClient ==
    /\ Held
    /\ self.db_type \in {"s3", "r2"}
    /\ self.db_path # conns[self.conn].path
    /\ Returned(TRUE) # {}
    /\ Returned(FALSE) # {}

\* What C16 asks of a constructed client: it holds no handle exactly when it is
\* Local and read-only, and when it holds a handle that handle is the one open
\* connection.
ModeMatchesKind ==
    /\ self.conn = NoConn <=> (self.db_type = "duckdb" /\ self.read_only)
    /\ self.conn # NoConn => OpenHandles = {self.conn}

\* C16: every step that ends in a constructed client (the return of the
\* constructor, and every step of a query() call) ends in a client whose mode
\* matches its kind, and a step taken on a constructed client leaves self.conn
\* as it was: none stays none, a held handle stays that handle.
C16_ModeFollowsKindAndIsFixed ==
    [][pc' = "ready" =>
          /\ ModeMatchesKind'
          /\ pc = "ready" => self'.conn = self.conn]_vars

\* A read-only client of the warehouse, which holds its handle, after it has
\* answered a query() and failed another.
C16_HeldWarehouseAfterQueries ==
    /\ Held
    /\ self.db_type = "motherduck"
    /\ self.read_only
    /\ Returned(TRUE) # {}
    /\ Returned(FALSE) # {}

\* The engine calls of the constructor, in order.
Steps == SelectSeq(log, LAMBDA e : e.by = Constructor)

IsSecret(e) == e.op = "execute" /\ e.stmt[1] \in {StmtS3Secret(<<>>, <<>>, <<>>)[1],
                                                 StmtR2Secret(<<>>, <<>>, <<>>)[1]}

IsUse(e) == e.op = "execute" /\ e.stmt[1] = StmtUse("")[1]

\* C17: the engine calls of an object-store constructor come in the order
\* connect to :memory:, INSTALL, LOAD, at most one CREATE SECRET, then ATTACH and
\* USE only. A USE comes right after an ATTACH that succeeded and names the
\* alias of the backend, s3db for s3 and r2db for r2. The client is constructed
\* only when the last two calls are a successful ATTACH and a successful USE,
\* the connect, the LOAD and the secret having succeeded before.
C17_ObjectStoreStepsInOrder ==
    (self.db_type \in {"s3", "r2"} /\ Steps # <<>>) =>
        /\ \A i \in 1..Len(Steps) :
              /\ i = 1 => (Steps[i].op = "connect" /\ Steps[i].stmt = <<MemoryPath>>)
              /\ i = 2 => Steps[i].stmt = StmtInstall
              /\ i = 3 => Steps[i].stmt = StmtLoad
              /\ i = 4 => (IsSecret(Steps[i]) \/ IsAttach(Steps[i]))
              /\ i > 4 => (IsAttach(Steps[i]) \/ IsUse(Steps[i]))
              /\ IsUse(Steps[i]) =>
                    /\ IsAttach(Steps[i - 1])
                    /\ Steps[i - 1].ok
                    /\ self.db_type = "s3" => Steps[i].stmt = <<"USE ", "s3db", ";">>
                    /\ self.db_type = "r2" => Steps[i].stmt = <<"USE ", "r2db", ";">>
        /\ pc \in {"return", "ready"} =>
              /\ Len(Steps) >= 5
              /\ IsUse(Steps[Len(Steps)])
              /\ Steps[Len(Steps)].ok
              /\ Steps[1].ok /\ Steps[3].ok
              /\ IsSecret(Steps[4]) => Steps[4].ok

\* An r2 client constructed with a secret, at the first attempt.
C17_R2ReadyWithSecret ==
    /\ Held
    /\ self.db_type = "r2"
    /\ Len(Steps) = 6
    /\ IsSecret(Steps[4])

\* The credentials the constructor has read are all set and not empty.
Present(values) == \A v \in values : v \notin {None, <<>>}

\* Positions of the constructor's calls holding a CREATE SECRET.
Secrets == { i \in 1..Len(Steps) : IsSecret(Steps[i]) }

\* C18: once the constructor has read the credentials of its backend, it has
\* issued a CREATE SECRET exactly when they are all set and not empty (key and
\* secret for s3, and the region is 'us-east-1' when AWS_DEFAULT_REGION is not
\* set; key, secret and account id for r2), that secret is the one of the
\* backend, and when it issued none it stands at the ATTACH or has issued it.
C18_SecretIffCredentialsPresent ==
    frame.creds # <<>> =>
        LET key == frame.creds[1]
            secret == frame.creds[2]
            third == frame.creds[3]
            required == IF self.db_type = "s3" THEN {key, secret}
                        ELSE {key, secret, third}
        IN  /\ Secrets # {} <=> Present(required)
            /\ Secrets \subseteq {4}
            /\ (Secrets # {} /\ self.db_type = "s3") =>
                  Steps[4].stmt = StmtS3Secret(key, secret,
                                      IF third = None THEN DefaultRegion ELSE third)
            /\ (Secrets # {} /\ self.db_type = "r2") =>
                  Steps[4].stmt = StmtR2Secret(key, secret, third)
            /\ Secrets = {} =>
                  \/ pc = "attach" /\ Len(Steps) = 3
                  \/ Len(Steps) >= 4 /\ IsAttach(Steps[4])

\* An r2 client with key and secret but an empty account id, past its ATTACH
\* and its USE.
C18_R2WithoutAccountAttached ==
    /\ pc = "return"
    /\ self.db_type = "r2"
    /\ Present({frame.creds[1], frame.creds[2]})
    /\ frame.creds[3] = <<>>

\* C19: a constructor that has raised has left no connection open: the probe
\* connection is closed when SELECT 1 fails, and the in-memory connection is
\* closed when LOAD, CREATE SECRET, ATTACH or USE fails for good.
C19_FailedConstructionLeavesNothingOpen ==
    pc = "failed" => OpenHandles = {}

\* C20: HOME is written by one step only, the step of __init__ that ends with
\* the address resolved, when home_dir is given and not empty; the engine has
\* been asked for no connection by then. The step that ends in a failed
\* resolution, or that has no home_dir, leaves HOME alone, and so does every
\* later step: those of _initialize_connection, failing or not, and those of
\* query() calls.
C20_HomeWrittenOnceAtResolution ==
    [][/\ pc = "new" =>
             /\ HOME' = IF pc' = "initialize" /\ args'.home_dir \notin {None, <<>>}
                        THEN args'.home_dir ELSE HOME
             /\ conns' = <<>>
             /\ log' = <<>>
       /\ pc # "new" => HOME' = HOME]_vars

\* A construction that wrote HOME and then failed on an engine call: HOME keeps
\* the value written.
C20_HomeKeptAfterFailedInitialization ==
    /\ pc = "failed"
    /\ log # <<>>
    /\ HOME = <<"/", "h">>
    /\ HOME # InitialHome

====
